---- MODULE Spec2Model ----
(***************************************************************************)
(* Session store of creastat/storage: the process-local store              *)
(* (inMemoryStore, a mutex-guarded map of *SessionData) and the            *)
(* cache-backed store (redisStore, one JSON value per key, Update through  *)
(* WATCH / MULTI / EXEC), driven by concurrent callers.                    *)
(*                                                                         *)
(* SessionData values live on a heap of addresses because the local store  *)
(* keeps and returns pointers: two holders of one address see each other's *)
(* writes.  The cache-backed store keeps serialized values, and its Get    *)
(* decodes into a fresh object.                                            *)
(***************************************************************************)
EXTENDS Integers, FiniteSets, Sequences, TLC

\* Largest Version a successful Update may start from.
MaxVersion == 2
\* How many stores are constructed.
MaxStores == 3
\* How long a conversation history gets.
MaxHistory == 3
\* How large a backing array of a history gets.
MaxCap == 4
\* How many code points a text has.
MaxText == 4

CallerSeq == <<"c1", "c2">>
IDSeq == <<"s1", "s2">>
Callers == {CallerSeq[i] : i \in 1 .. Len(CallerSeq)}
IDs == {IDSeq[i] : i \in 1 .. Len(IDSeq)}
\* The session that concurrent callers work on.
OneID == {IDSeq[1]}
\* The caller-owned part of a record (SystemPrompt, ConversationHistory, ...).
Bodies == {"x", "y"}
\* The instants at which the wall clock is read.
Times == {1, 2}

\* One address per pointer that can be live: each caller's data variable and
\* each map entry.
Addr == 1 .. (Len(CallerSeq) + Len(IDSeq))
\* Go's nil pointer.
NULL == 0
\* The zero time.Time of a SessionData literal that sets no timestamp.
ZeroTime == 0

StoreTypeMemory == "memory"
StoreTypeRedis == "redis"

ErrNil == "nil"
ErrNotFound == "ErrNotFound"
ErrVersionConflict == "ErrVersionConflict"
\* go-redis's error for an EXEC that the server aborted (a watched key changed).
TxFailedErr == "TxFailedErr"
\* ctx.Err() of a context that was cancelled, or whose deadline passed.
ErrCanceled == "context.Canceled"
ErrDeadlineExceeded == "context.DeadlineExceeded"
CtxErrs == {ErrCanceled, ErrDeadlineExceeded}
\* The error of a cache command that did not get its reply, and json's error
\* for a value that is no encoding of a SessionData.
ErrInvalidConfig == "ErrInvalidConfig"
ErrInvalidStoreType == "ErrInvalidStoreType"
ErrNilMap == "panic: assignment to entry in nil map"
ErrBackend == "redis: command failed"
ErrDecode == "json: cannot unmarshal"

\* NewStore's default for the cache-backed store: 24 * time.Hour, in hours.
DefaultTTL == 24
\* The values of WithRedisTTL, in hours.
TTLConfigs == {-1, 0, 1, 2}

VARIABLES
    storeType,      \* which backend NewStore constructed
    sessions,       \* inMemoryStore.sessions: ID -> address (NULL: no entry)
    kv,             \* the cache: ID -> serialized value (RedisNil: no key)
    heap,           \* address -> SessionData
    held,           \* each caller's data pointer
    pc,             \* each caller's position inside a cache-backed call
    tx,             \* each caller's locals inside a cache-backed call
    returned,       \* the store call that returned in the step into this state, if any
    now,            \* the last reading of time.Now() (ZeroTime: none yet)
    nUpd,           \* history: successful Updates of the ID since its last Create
    committedFrom,  \* history: Versions those Updates were checked against
    obs,            \* history: the record a caller obtained by Get and then updated
    ctx,            \* ctx.Err() of the context each caller passes to its calls
    ttl,            \* redisStore.ttl
    expire,         \* the cache: ID -> hours until the key expires (0: no expiry set)
    arg,            \* the arguments of the last call of a package function
    res,            \* what that call returned
    made,           \* the stores NewStore has returned, in order
    maps,           \* map address -> the IDs with an entry in that map
    hist,           \* the []Message slice each of a caller's variables holds
    backing,        \* array address -> the cells of that backing array
    both,           \* a local and a cache-backed store given the same calls
    closed          \* whether Close has set inMemoryStore.sessions to nil

\* The addresses make(map[string]*SessionData) can return.
MapAddr == 1 .. MaxStores

\* The selectors NewStore is called with.
StoreTypes == {StoreTypeMemory, StoreTypeRedis, "postgres", ""}

\* Message.TokenCount values, and the limits TruncateHistory is called with.
TokenCounts == {0, 1, 2}
MessageLimits == -1 .. MaxHistory + 1
TokenLimits == -1 .. MaxHistory + 1

\* The caller's variables that hold a history, and the backing arrays.
Holders == {"h1", "h2"}
ArrAddr == 1 .. 3

\* Contents of messages, as the code points a range over the string yields:
\* "a" and the one-character string U+65E5.
Contents == {<<97>>, <<26085>>}

\* Code points of the texts EstimateTokens is called with: t, e, s, DEL, the
\* first code point above 127, and three CJK characters.
Runes == {116, 101, 115, 127, 128, 26085, 26412, 35486}

\* The limits a caller truncates its histories with.
SliceLimits == {1, 2}

\* The zero Message of a cell never written.
FreeMsg == [Content |-> <<>>, TokenCount |-> 0]

\* A nil []Message.
NilSlice == [arr |-> NULL, off |-> 0, len |-> 0, cap |-> 0]

\* No package function has been called.
NoCall == [fn |-> "none"]

\* What Create, Get, Update, Delete and the edits of a record leave as it is.
fixed == <<storeType, ctx, ttl, arg, res, made, maps, hist, backing, both,
           closed>>

vars == <<fixed, sessions, kv, heap, held, pc, tx, returned, now,
          nUpd, committedFrom, obs, expire>>

\* An address nothing points to.
FreeObj == [ID |-> "", CreatedAt |-> ZeroTime, UpdatedAt |-> ZeroTime,
            Version |-> 0, Body |-> ""]
\* redis.Nil: the key does not exist.
RedisNil == [id |-> "", created_at |-> ZeroTime, updated_at |-> ZeroTime,
             version |-> 0, body |-> ""]

NoTx == [id |-> "", dirty |-> FALSE, v0 |-> 0, u0 |-> ZeroTime,
         newVal |-> RedisNil, rival |-> FALSE, modified |-> FALSE]
NoRet == [c |-> "", op |-> "none", id |-> "", err |-> ErrNil, found |-> 0,
          fault |-> "none"]
NoObs == [phase |-> "none", id |-> "", v |-> 0, err |-> ErrNil]

----------------------------------------------------------------------------
(* Pure pieces of the store code *)

\* json.Marshal of a SessionData: the fields under their snake_case keys.
marshalJSON(d) ==
    [id |-> d.ID, created_at |-> d.CreatedAt, updated_at |-> d.UpdatedAt,
     version |-> d.Version, body |-> d.Body]

\* json.Unmarshal into a zero SessionData.
unmarshalJSON(v) ==
    [ID |-> v.id, CreatedAt |-> v.created_at, UpdatedAt |-> v.updated_at,
     Version |-> v.version, Body |-> v.body]

\* A value under a session key that is no JSON encoding of a SessionData.
BadValue == [RedisNil EXCEPT !.body = "\\xff"]

\* Whether json.Unmarshal accepts the value.
Decodes(v) == v # BadValue

\* The first of the bodies: what a new record carries until its holder edits it.
DefaultBody == CHOOSE b \in Bodies : b = "x"

\* A caller's literal &SessionData{ID: id, ...}: every field it does not set is
\* Go's zero value.
SessionData(id) ==
    [ID |-> id, CreatedAt |-> ZeroTime, UpdatedAt |-> ZeroTime,
     Version |-> 0, Body |-> DefaultBody]

CreateStamp_KeepVersion(d, t) ==
    [d EXCEPT !.CreatedAt = t, !.UpdatedAt = t]

\* Create: now := time.Now(); data.CreatedAt = now; data.UpdatedAt = now;
\* data.Version = 1.
CreateStamp(d, t) ==
    [d EXCEPT !.CreatedAt = t, !.UpdatedAt = t, !.Version = 1]

CreateResult_RejectExisting(exists) ==
    IF exists THEN ErrVersionConflict ELSE ErrNil

\* Create's result: it never looks at the entry it overwrites.
CreateResult(exists) == ErrNil

UpdateCheck_NoVersionCheck(exists, storedVersion, dataVersion) ==
    IF ~exists THEN ErrNotFound ELSE ErrNil

UpdateCheck_Upsert(exists, storedVersion, dataVersion) ==
    IF exists /\ storedVersion # dataVersion THEN ErrVersionConflict ELSE ErrNil

\* Update's two early returns: no entry, then a Version that differs.
UpdateCheck(exists, storedVersion, dataVersion) ==
    IF ~exists THEN ErrNotFound
    ELSE IF storedVersion # dataVersion THEN ErrVersionConflict
    ELSE ErrNil

UpdateStamp_ByTwo(d, t) ==
    [d EXCEPT !.Version = @ + 2, !.UpdatedAt = t]

\* Update on a match: data.Version++; data.UpdatedAt = time.Now().
UpdateStamp(d, t) ==
    [d EXCEPT !.Version = @ + 1, !.UpdatedAt = t]

CloseMap_KeepsEntries(ss) == ss

\* Close: s.sessions = nil, a map that reads as empty.
CloseMap(ss) == [i \in IDs |-> NULL]

DeleteResult_NotFoundIfAbsent(exists) ==
    IF exists THEN ErrNil ELSE ErrNotFound

\* Delete's error: delete(s.sessions, id) and DEL key succeed on an absent ID.
DeleteResult(exists) == ErrNil

GetOutcome_ErrorsAsAbsent(failed, exists, decodes) == ErrNil

\* Get's error: the read's own error unless it is redis.Nil, then the decode's.
GetOutcome(failed, exists, decodes) ==
    IF failed THEN ErrBackend
    ELSE IF ~exists THEN ErrNil
    ELSE IF ~decodes THEN ErrDecode
    ELSE ErrNil

GetAfterExpire_Propagates(expireErr) == expireErr

\* Get's error once the record is decoded: _ = s.client.Expire(...).Err().
GetAfterExpire(expireErr) == ErrNil

\* A nil Store.
NoStore == [type |-> "", ttl |-> 0]

EffectiveTTL_AsConfigured(redisTTL) == redisTTL

\* NewStore's ttl for the cache-backed store.
EffectiveTTL(redisTTL) == IF redisTTL <= 0 THEN DefaultTTL ELSE redisTTL

NewStore_MemoryByDefault(st, hasClient, redisTTL) ==
    IF st = StoreTypeRedis /\ hasClient
    THEN [store |-> [type |-> StoreTypeRedis, ttl |-> EffectiveTTL(redisTTL)],
          err |-> ErrNil]
    ELSE [store |-> [type |-> StoreTypeMemory, ttl |-> 0], err |-> ErrNil]

\* NewStore(storeType, opts...): the store and the error it returns; hasClient
\* is whether WithRedisClient gave a client.
NewStore(st, hasClient, redisTTL) ==
    IF st = StoreTypeMemory
    THEN [store |-> [type |-> StoreTypeMemory, ttl |-> 0], err |-> ErrNil]
    ELSE IF st = StoreTypeRedis
    THEN IF ~hasClient
         THEN [store |-> NoStore, err |-> ErrInvalidConfig]
         ELSE [store |-> [type |-> StoreTypeRedis, ttl |-> EffectiveTTL(redisTTL)],
               err |-> ErrNil]
    ELSE [store |-> NoStore, err |-> ErrInvalidStoreType]

AfterExec_RetryOnAbort(committed) ==
    IF committed THEN "idle" ELSE "upd_watched"

\* Where Update goes once EXEC has answered: Watch returns the callback's
\* error and Update returns it, committed or not.
AfterExec(committed) == "idle"

ExecCommits_Always(dirty) == TRUE

\* EXEC inside TxPipelined: the queued SET runs unless a watched key was
\* touched since WATCH.
ExecCommits(dirty) == ~dirty

----------------------------------------------------------------------------
(* The heap *)

Refs(hd, ss) == ({hd[c] : c \in Callers} \cup {ss[i] : i \in IDs}) \ {NULL}

\* The pointers that keep objects alive, in a fixed order: the callers' data
\* variables, then the map's entries.
Roots(hd, ss) ==
    [i \in Addr |-> IF i <= Len(CallerSeq) THEN hd[CallerSeq[i]]
                    ELSE ss[IDSeq[i - Len(CallerSeq)]]]

\* Addresses carry no meaning beyond which pointers are equal: every object is
\* moved to the index of the first root that points to it, and what no root
\* points to is the garbage collector's.
Place(h, hd, ss) ==
    LET r == Roots(hd, ss)
        to(a) == CHOOSE i \in Addr : r[i] = a /\ \A j \in 1 .. (i - 1) : r[j] # a
        mv(a) == IF a = NULL THEN NULL ELSE to(a)
    IN  [heap     |-> [i \in Addr |-> IF r[i] # NULL /\ to(r[i]) = i THEN h[r[i]]
                                      ELSE FreeObj],
         held     |-> [c \in Callers |-> mv(hd[c])],
         sessions |-> [i \in IDs |-> mv(ss[i])]]

\* The address a new object of caller c gets, c's data variable being
\* overwritten by the new pointer.
Fresh(c) ==
    CHOOSE a \in Addr : a \notin Refs([held EXCEPT ![c] = NULL], sessions)

Idle(c) == pc[c] = "idle"

----------------------------------------------------------------------------
(* History kept for the properties; no action reads it *)

\* A write of the ID by Create or Delete ends every Get-then-Update in progress
\* on it.
ObsReset(id) ==
    [d \in Callers |-> IF obs[d].id = id THEN NoObs ELSE obs[d]]

ObsAfterGet(c, id, found, v) ==
    [obs EXCEPT ![c] = IF found
                       THEN [phase |-> "got", id |-> id, v |-> v, err |-> ErrNil]
                       ELSE NoObs]

ObsAfterUpdate(c, id, err) ==
    [obs EXCEPT ![c] = IF obs[c].phase = "got" /\ obs[c].id = id
                       THEN [obs[c] EXCEPT !.phase = "done", !.err = err]
                       ELSE NoObs]

\* The record of a call that returns in this step; found is the Version of the
\* record the call met in the store (0: none).
Returned(c, op, id, err, found) ==
    [c |-> c, op |-> op, id |-> id, err |-> err, found |-> found, fault |-> "none"]

\* The same, of a call one of whose commands got no reply.
Faulted(r, fault) == [r EXCEPT !.fault = fault]

MemFound(id) == IF sessions[id] # NULL THEN heap[sessions[id]].Version ELSE 0

----------------------------------------------------------------------------
(* Callers *)

\* A caller builds a record of its own.
NewData(c, id) ==
    /\ Idle(c)
    /\ returned' = NoRet
    /\ LET a == Fresh(c)
           p == Place([heap EXCEPT ![a] = SessionData(id)],
                      [held EXCEPT ![c] = a], sessions)
       IN  /\ heap' = p.heap
           /\ held' = p.held
           /\ sessions' = p.sessions
    /\ obs' = [obs EXCEPT ![c] = NoObs]
    /\ UNCHANGED <<fixed, expire, kv, pc, tx, now, nUpd, committedFrom>>

\* A caller changes the body of the record it holds (the modify of a
\* read-modify-write).
SetBody(c, b) ==
    /\ Idle(c)
    /\ returned' = NoRet
    /\ held[c] # NULL
    /\ heap[held[c]].Body # b
    /\ heap' = [heap EXCEPT ![held[c]].Body = b]
    /\ UNCHANGED <<fixed, expire, sessions, kv, held, pc, tx, now,
                   nUpd, committedFrom, obs>>

\* A caller changes the ID of the record it holds, to use the record for
\* another session.
SetID(c, id) ==
    /\ Idle(c)
    /\ returned' = NoRet
    /\ held[c] # NULL
    /\ heap[held[c]].ID # id
    /\ heap' = [heap EXCEPT ![held[c]].ID = id]
    /\ UNCHANGED <<fixed, expire, sessions, kv, held, pc, tx, now,
                   nUpd, committedFrom, obs>>

\* time.Now(): a reading no earlier than the last one.
Clock == {t \in Times : t >= now}

\* A caller's context is cancelled or runs out, or the caller takes a new one.
SetCtx(c, e) ==
    /\ Idle(c)
    /\ ctx[c] # e
    /\ ctx' = [ctx EXCEPT ![c] = e]
    /\ returned' = NoRet
    /\ UNCHANGED <<storeType, closed, ttl, arg, res, made, maps, hist, backing, both, expire,
                   sessions, kv,
                   heap, held, pc, tx, now, nUpd, committedFrom, obs>>

----------------------------------------------------------------------------
(* inMemoryStore: every method runs under s.mu, so each is one step *)

MemCreate(c) ==
    /\ storeType = StoreTypeMemory
    /\ ~closed
    /\ Idle(c)
    /\ held[c] # NULL
    /\ \E t \in Clock :
       LET data == held[c]
           id   == heap[data].ID
           p    == Place([heap EXCEPT ![data] = CreateStamp(@, t)], held,
                         [sessions EXCEPT ![id] = data])
       IN  /\ now' = t
           /\ heap' = p.heap
           /\ held' = p.held
           /\ sessions' = p.sessions
           /\ returned' = Returned(c, "Create", id, CreateResult(sessions[id] # NULL), MemFound(id))
           /\ nUpd' = [nUpd EXCEPT ![id] = 0]
           /\ committedFrom' = [committedFrom EXCEPT ![id] = {}]
           /\ obs' = ObsReset(id)
    /\ UNCHANGED <<fixed, expire, kv, pc, tx>>

MemGet(c, id) ==
    /\ storeType = StoreTypeMemory
    /\ Idle(c)
    /\ LET p == Place(heap, [held EXCEPT ![c] = sessions[id]], sessions)
       IN  /\ heap' = p.heap
           /\ held' = p.held
           /\ sessions' = p.sessions
    /\ returned' = Returned(c, "Get", id, ErrNil, MemFound(id))
    /\ obs' = ObsAfterGet(c, id, sessions[id] # NULL, MemFound(id))
    /\ UNCHANGED <<fixed, expire, kv, pc, tx, now, nUpd, committedFrom>>

MemUpdate(c) ==
    /\ storeType = StoreTypeMemory
    /\ Idle(c)
    /\ held[c] # NULL
    /\ LET data   == held[c]
           id     == heap[data].ID
           exists == sessions[id] # NULL
           found  == MemFound(id)
           err    == UpdateCheck(exists, found, heap[data].Version)
       IN  /\ returned' = Returned(c, "Update", id, err, found)
           /\ obs' = ObsAfterUpdate(c, id, err)
           /\ IF err = ErrNil
              THEN /\ heap[data].Version <= MaxVersion
                   /\ nUpd[id] <= MaxVersion
                   /\ \E t \in Clock :
                      LET p == Place([heap EXCEPT ![data] = UpdateStamp(@, t)], held,
                                     [sessions EXCEPT ![id] = data])
                      IN  /\ now' = t
                          /\ heap' = p.heap
                          /\ held' = p.held
                          /\ sessions' = p.sessions
                   /\ nUpd' = [nUpd EXCEPT ![id] = @ + 1]
                   /\ committedFrom' = [committedFrom EXCEPT ![id] = @ \cup {found}]
              ELSE UNCHANGED <<now, heap, held, sessions, nUpd, committedFrom>>
    /\ UNCHANGED <<fixed, expire, kv, pc, tx>>

MemDelete(c, id) ==
    /\ storeType = StoreTypeMemory
    /\ Idle(c)
    /\ LET p == Place(heap, held, [sessions EXCEPT ![id] = NULL])
       IN  /\ heap' = p.heap
           /\ held' = p.held
           /\ sessions' = p.sessions
    /\ returned' = Returned(c, "Delete", id, DeleteResult(sessions[id] # NULL),
                            MemFound(id))
    /\ nUpd' = [nUpd EXCEPT ![id] = 0]
    /\ committedFrom' = [committedFrom EXCEPT ![id] = {}]
    /\ obs' = ObsReset(id)
    /\ UNCHANGED <<fixed, expire, kv, pc, tx, now>>

\* Create on a closed store: data is stamped, then s.sessions[data.ID] = data
\* panics, the map being nil.
MemCreateClosed(c) ==
    /\ storeType = StoreTypeMemory
    /\ closed
    /\ Idle(c)
    /\ held[c] # NULL
    /\ \E t \in Clock :
          /\ now' = t
          /\ heap' = [heap EXCEPT ![held[c]] = CreateStamp(@, t)]
    /\ returned' = Returned(c, "Create", heap[held[c]].ID, ErrNilMap, 0)
    /\ obs' = [obs EXCEPT ![c] = NoObs]
    /\ UNCHANGED <<fixed, expire, sessions, held, kv, pc, tx, nUpd, committedFrom>>

\* Close of the local store.
MemClose(c) ==
    /\ storeType = StoreTypeMemory
    /\ Idle(c)
    /\ ~closed
    /\ closed' = TRUE
    /\ LET p == Place(heap, held, CloseMap(sessions))
       IN  /\ heap' = p.heap
           /\ held' = p.held
           /\ sessions' = p.sessions
    /\ returned' = Returned(c, "Close", "", ErrNil, 0)
    /\ nUpd' = [i \in IDs |-> 0]
    /\ committedFrom' = [i \in IDs |-> {}]
    /\ obs' = [d \in Callers |-> NoObs]
    /\ UNCHANGED <<storeType, ctx, ttl, arg, res, made, maps, hist, backing, both,
                   expire, kv, pc, tx, now>>

----------------------------------------------------------------------------
(* redisStore: one step per command sent to the cache *)

InUpdate(c) == pc[c] \in {"upd_watched", "upd_exec"}

Touch_Never(t, id, writer) == t

\* The cache marks every connection that WATCHes the key: its next EXEC aborts.
\* Commands that write the key do this (SET, DEL of an existing key, EXPIRE of
\* an existing key).
Touch(t, id, writer) ==
    [d \in Callers |->
        IF d # writer /\ InUpdate(d) /\ t[d].id = id
        THEN [t[d] EXCEPT !.dirty = TRUE]
        ELSE t[d]]

\* History: the key was written after caller d's Update read it.
NoteModified(t, id, writer) ==
    [d \in Callers |->
        IF d # writer /\ pc[d] = "upd_exec" /\ t[d].id = id
        THEN [t[d] EXCEPT !.modified = TRUE]
        ELSE t[d]]

\* History: an Update that carried the same Version committed while caller d's
\* Update was in progress, and it was the first write of the key since d's
\* WATCH; a later commit ends that race.
NoteRival(t, id, v, writer) ==
    [d \in Callers |->
        IF d # writer /\ InUpdate(d) /\ t[d].id = id
        THEN [t[d] EXCEPT !.rival = (t[d].v0 = v /\ ~t[d].dirty)]
        ELSE t[d]]

\* History: a Create or Delete of the key ends the race of two Updates on it.
ClearRival(t, id) ==
    [d \in Callers |->
        IF t[d].id = id THEN [t[d] EXCEPT !.rival = FALSE] ELSE t[d]]

RedisCreate(c) ==
    /\ storeType = StoreTypeRedis
    /\ Idle(c)
    /\ held[c] # NULL
    /\ \E t \in Clock :
       LET data == held[c]
           id   == heap[data].ID
           d1   == CreateStamp(heap[data], t)
       IN  /\ now' = t
           /\ heap' = [heap EXCEPT ![data] = d1]
           /\ kv' = [kv EXCEPT ![id] = marshalJSON(d1)]
           /\ expire' = [expire EXCEPT ![id] = ttl]
           /\ tx' = ClearRival(NoteModified(Touch(tx, id, c), id, c), id)
           /\ returned' = Returned(c, "Create", id, CreateResult(kv[id] # RedisNil), kv[id].version)
           /\ nUpd' = [nUpd EXCEPT ![id] = 0]
           /\ committedFrom' = [committedFrom EXCEPT ![id] = {}]
    /\ UNCHANGED <<fixed, sessions, held, pc, obs>>

\* Get, first command: GET key, then the decode into a new SessionData; failed
\* is whether the command got no reply.
RedisGetRead(c, id, failed) ==
    /\ storeType = StoreTypeRedis
    /\ Idle(c)
    /\ LET exists == kv[id] # RedisNil
           err    == GetOutcome(failed, exists, Decodes(kv[id]))
       IN  IF ~failed /\ exists /\ err = ErrNil
           THEN /\ LET a == Fresh(c)
                       p == Place([heap EXCEPT ![a] = unmarshalJSON(kv[id])],
                                  [held EXCEPT ![c] = a], sessions)
                   IN  /\ heap' = p.heap
                       /\ held' = p.held
                /\ pc' = [pc EXCEPT ![c] = "get_expire"]
                /\ tx' = [tx EXCEPT ![c] = [NoTx EXCEPT !.id = id]]
                /\ returned' = NoRet
           ELSE /\ LET p == Place(heap, [held EXCEPT ![c] = NULL], sessions)
                   IN  /\ heap' = p.heap
                       /\ held' = p.held
                /\ returned' = Faulted(Returned(c, "Get", id, err, kv[id].version),
                                       IF failed THEN "read" ELSE "none")
                /\ UNCHANGED <<pc, tx>>
    /\ UNCHANGED <<fixed, expire, sessions, kv, now, nUpd, committedFrom, obs>>

\* Get, second command: EXPIRE key ttl, its error dropped; then return &data.
\* sent is whether the command reached the cache, ok whether its reply came.
RedisGetExpire(c, sent, ok) ==
    /\ storeType = StoreTypeRedis
    /\ pc[c] = "get_expire"
    /\ ok => sent
    /\ LET id      == tx[c].id
           t1      == [tx EXCEPT ![c] = NoTx]
           applies == sent /\ kv[id] # RedisNil
           err     == GetAfterExpire(IF ok THEN ErrNil ELSE ErrBackend)
       IN  /\ tx' = IF applies THEN NoteModified(Touch(t1, id, c), id, c) ELSE t1
           /\ expire' = IF applies THEN [expire EXCEPT ![id] = ttl] ELSE expire
           /\ returned' = Faulted(Returned(c, "Get", id, err, heap[held[c]].Version),
                                  IF ok THEN "none" ELSE "expire")
    /\ pc' = [pc EXCEPT ![c] = "idle"]
    /\ UNCHANGED <<fixed, sessions, kv, heap, held, now,
                   nUpd, committedFrom, obs>>

\* Update, first command: client.Watch sends WATCH key.
RedisUpdateWatch(c) ==
    /\ storeType = StoreTypeRedis
    /\ returned' = NoRet
    /\ Idle(c)
    /\ held[c] # NULL
    /\ pc' = [pc EXCEPT ![c] = "upd_watched"]
    /\ tx' = [tx EXCEPT ![c] = [NoTx EXCEPT !.id = heap[held[c]].ID,
                                            !.v0 = heap[held[c]].Version,
                                            !.u0 = heap[held[c]].UpdatedAt]]
    /\ UNCHANGED <<fixed, expire, sessions, kv, heap, held, now,
                   nUpd, committedFrom, obs>>

\* Update, second command: tx.Get, then the decode, the Version check and, on a
\* match, the stamping of the caller's data and its encoding.  An early return
\* leaves the callback, and Watch then sends UNWATCH.
RedisUpdateRead(c) ==
    /\ storeType = StoreTypeRedis
    /\ pc[c] = "upd_watched"
    /\ LET data   == held[c]
           id     == tx[c].id
           exists == kv[id] # RedisNil
           stored == unmarshalJSON(kv[id])
           err    == IF exists /\ ~Decodes(kv[id]) THEN ErrDecode
                     ELSE UpdateCheck(exists, stored.Version, heap[data].Version)
       IN  IF err = ErrNil
           THEN /\ heap[data].Version <= MaxVersion
                /\ \E t \in Clock :
                   LET d1 == UpdateStamp(heap[data], t)
                   IN  /\ now' = t
                       /\ heap' = [heap EXCEPT ![data] = d1]
                       /\ tx' = [tx EXCEPT ![c].newVal = marshalJSON(d1)]
                /\ pc' = [pc EXCEPT ![c] = "upd_exec"]
                /\ returned' = NoRet
           ELSE /\ returned' = Returned(c, "Update", id, err, kv[id].version)
                /\ tx' = [tx EXCEPT ![c] = NoTx]
                /\ pc' = [pc EXCEPT ![c] = "idle"]
                /\ UNCHANGED <<now, heap>>
    /\ UNCHANGED <<fixed, expire, sessions, kv, held,
                   nUpd, committedFrom, obs>>

\* Update, third command: TxPipelined sends MULTI, SET key newVal ttl, EXEC.
\* go-redis returns TxFailedErr when the cache aborted the EXEC.
RedisUpdateExec(c) ==
    /\ storeType = StoreTypeRedis
    /\ pc[c] = "upd_exec"
    /\ LET id == tx[c].id
           t1 == [tx EXCEPT ![c] = NoTx]
       IN  IF ExecCommits(tx[c].dirty)
           THEN /\ kv' = [kv EXCEPT ![id] = tx[c].newVal]
                /\ expire' = [expire EXCEPT ![id] = ttl]
                /\ tx' = NoteModified(Touch(NoteRival(t1, id, tx[c].v0, c), id, c), id, c)
                /\ returned' = Returned(c, "Update", id, ErrNil, tx[c].v0)
                /\ nUpd' = [nUpd EXCEPT ![id] = @ + 1]
                /\ committedFrom' = [committedFrom EXCEPT ![id] = @ \cup {tx[c].v0}]
           ELSE /\ returned' = Returned(c, "Update", id, TxFailedErr, tx[c].v0)
                /\ tx' = t1
                /\ UNCHANGED <<kv, expire, nUpd, committedFrom>>
    /\ pc' = [pc EXCEPT ![c] = AfterExec(ExecCommits(tx[c].dirty))]
    /\ UNCHANGED <<fixed, sessions, heap, held, now, obs>>

DelTouches_Never(existed) == FALSE

\* DEL invalidates the WATCHes of the key when it removed a key: an absent
\* key is not written.
DelTouches(existed) == existed

RedisDelete(c, id) ==
    /\ storeType = StoreTypeRedis
    /\ Idle(c)
    /\ kv' = [kv EXCEPT ![id] = RedisNil]
    /\ expire' = [expire EXCEPT ![id] = 0]
    /\ tx' = IF DelTouches(kv[id] # RedisNil)
             THEN ClearRival(NoteModified(Touch(tx, id, c), id, c), id)
             ELSE ClearRival(tx, id)
    /\ returned' = Returned(c, "Delete", id, DeleteResult(kv[id] # RedisNil),
                            kv[id].version)
    /\ nUpd' = [nUpd EXCEPT ![id] = 0]
    /\ committedFrom' = [committedFrom EXCEPT ![id] = {}]
    /\ UNCHANGED <<fixed, sessions, heap, held, pc, now, obs>>

\* The cache's own clock: one unit of the TTL passes.  A key whose expiration
\* runs out is removed; touch is whether the cache counts that removal as a
\* write for the connections that WATCH the key (it depends on the server's
\* version).
Elapse(touch) ==
    /\ storeType = StoreTypeRedis
    /\ \E id \in IDs : expire[id] > 0
    /\ LET gone == {id \in IDs : expire[id] = 1}
       IN  /\ expire' = [id \in IDs |-> IF expire[id] > 0 THEN expire[id] - 1 ELSE 0]
           /\ kv' = [id \in IDs |-> IF id \in gone THEN RedisNil ELSE kv[id]]
           /\ tx' = [d \in Callers |->
                       IF tx[d].id \in gone
                       THEN [tx[d] EXCEPT !.dirty = @ \/ (touch /\ InUpdate(d)),
                                          !.modified = @ \/ pc[d] = "upd_exec",
                                          !.rival = FALSE]
                       ELSE tx[d]]
           /\ nUpd' = [id \in IDs |-> IF id \in gone THEN 0 ELSE nUpd[id]]
           /\ committedFrom' = [id \in IDs |-> IF id \in gone THEN {}
                                                ELSE committedFrom[id]]
    /\ returned' = NoRet
    /\ UNCHANGED <<fixed, sessions, heap, held, pc, now, obs>>

\* Another client of the cache sets the key to a value that is no SessionData
\* (SET key value, which also drops the key's expiration).
Corrupt(id) ==
    /\ storeType = StoreTypeRedis
    /\ kv[id] # BadValue
    /\ kv' = [kv EXCEPT ![id] = BadValue]
    /\ expire' = [expire EXCEPT ![id] = 0]
    /\ tx' = ClearRival(NoteModified(Touch(tx, id, ""), id, ""), id)
    /\ nUpd' = [nUpd EXCEPT ![id] = 0]
    /\ committedFrom' = [committedFrom EXCEPT ![id] = {}]
    /\ returned' = NoRet
    /\ UNCHANGED <<fixed, sessions, heap, held, pc, now, obs>>

----------------------------------------------------------------------------
(* A local and a cache-backed store given the same calls, one call at a time *)

\* The cache-backed store has no map of pointers.
NoSessions == [i \in IDs |-> NULL]

\* What a call returned: its error, and for Get whether the record is nil and
\* the Version of the record.
Outcome(op, err, isNil, version) ==
    [op |-> op, err |-> err, isNil |-> isNil, version |-> version]

NoOutcome == Outcome("none", ErrNil, TRUE, 0)

\* Two new stores, the callers holding nothing: mem is the inMemoryStore and
\* its callers' records, red the cache and its callers' records.
InitBoth ==
    [mem |-> [sessions |-> NoSessions, heap |-> [a \in Addr |-> FreeObj],
              held |-> [c \in Callers |-> NULL]],
     red |-> [kv |-> [i \in IDs |-> RedisNil], heap |-> [a \in Addr |-> FreeObj],
              held |-> [c \in Callers |-> NULL]],
     memOut |-> NoOutcome, redOut |-> NoOutcome, now |-> ZeroTime]

FreshIn(hd, ss, c) ==
    CHOOSE a \in Addr : a \notin Refs([hd EXCEPT ![c] = NULL], ss)

\* The caller's side, the same in both: a new literal, an edit of the body.
NewDataIn(heap0, held0, ss, c, id) ==
    LET a == FreshIn(held0, ss, c)
    IN  Place([heap0 EXCEPT ![a] = SessionData(id)], [held0 EXCEPT ![c] = a], ss)

SetBodyIn(heap0, held0, c, b) == [heap0 EXCEPT ![held0[c]].Body = b]

\* inMemoryStore.Create
MemCreateOf(w, c, t) ==
    LET data == w.held[c]
        id   == w.heap[data].ID
        p    == Place([w.heap EXCEPT ![data] = CreateStamp(@, t)], w.held,
                      [w.sessions EXCEPT ![id] = data])
    IN  [w |-> p,
         out |-> Outcome("Create", CreateResult(w.sessions[id] # NULL), TRUE, 0)]

\* inMemoryStore.Get
MemGetOf(w, c, id) ==
    LET found == w.sessions[id] # NULL
    IN  [w |-> Place(w.heap, [w.held EXCEPT ![c] = w.sessions[id]], w.sessions),
         out |-> Outcome("Get", ErrNil, ~found,
                         IF found THEN w.heap[w.sessions[id]].Version ELSE 0)]

\* inMemoryStore.Update
MemUpdateOf(w, c, t) ==
    LET data   == w.held[c]
        id     == w.heap[data].ID
        exists == w.sessions[id] # NULL
        found  == IF exists THEN w.heap[w.sessions[id]].Version ELSE 0
        err    == UpdateCheck(exists, found, w.heap[data].Version)
    IN  [w |-> IF err = ErrNil
               THEN Place([w.heap EXCEPT ![data] = UpdateStamp(@, t)], w.held,
                          [w.sessions EXCEPT ![id] = data])
               ELSE w,
         out |-> Outcome("Update", err, TRUE, 0)]

\* inMemoryStore.Delete
MemDeleteOf(w, c, id) ==
    [w |-> Place(w.heap, w.held, [w.sessions EXCEPT ![id] = NULL]),
     out |-> Outcome("Delete", DeleteResult(w.sessions[id] # NULL), TRUE, 0)]

\* What Place gives for a world without a map of pointers.
RedPlace(kv0, heap0, held0) ==
    LET p == Place(heap0, held0, NoSessions)
    IN  [kv |-> kv0, heap |-> p.heap, held |-> p.held]

\* redisStore.Create
RedisCreateOf(w, c, t) ==
    LET data == w.held[c]
        id   == w.heap[data].ID
        d1   == CreateStamp(w.heap[data], t)
    IN  [w |-> RedPlace([w.kv EXCEPT ![id] = marshalJSON(d1)],
                        [w.heap EXCEPT ![data] = d1], w.held),
         out |-> Outcome("Create", CreateResult(w.kv[id] # RedisNil), TRUE, 0)]

\* redisStore.Get, both commands
RedisGetOf(w, c, id) ==
    LET exists == w.kv[id] # RedisNil
        err    == GetOutcome(FALSE, exists, Decodes(w.kv[id]))
        a      == FreshIn(w.held, NoSessions, c)
    IN  IF exists /\ err = ErrNil
        THEN [w |-> RedPlace(w.kv, [w.heap EXCEPT ![a] = unmarshalJSON(w.kv[id])],
                             [w.held EXCEPT ![c] = a]),
              out |-> Outcome("Get", GetAfterExpire(ErrNil), FALSE, w.kv[id].version)]
        ELSE [w |-> RedPlace(w.kv, w.heap, [w.held EXCEPT ![c] = NULL]),
              out |-> Outcome("Get", err, TRUE, 0)]

\* redisStore.Update, all three commands with no other command between them
RedisUpdateOf(w, c, t) ==
    LET data   == w.held[c]
        id     == w.heap[data].ID
        exists == w.kv[id] # RedisNil
        stored == unmarshalJSON(w.kv[id])
        err    == UpdateCheck(exists, stored.Version, w.heap[data].Version)
        d1     == UpdateStamp(w.heap[data], t)
    IN  IF err = ErrNil /\ ExecCommits(FALSE)
        THEN [w |-> RedPlace([w.kv EXCEPT ![id] = marshalJSON(d1)],
                             [w.heap EXCEPT ![data] = d1], w.held),
              out |-> Outcome("Update", ErrNil, TRUE, 0)]
        ELSE [w |-> w, out |-> Outcome("Update", err, TRUE, 0)]

\* redisStore.Delete
RedisDeleteOf(w, c, id) ==
    [w |-> [w EXCEPT !.kv[id] = RedisNil],
     out |-> Outcome("Delete", DeleteResult(w.kv[id] # RedisNil), TRUE, 0)]

BothUnchanged ==
    UNCHANGED <<storeType, closed, ctx, ttl, arg, res, made, maps, hist, backing, sessions,
                kv, heap, held, pc, tx, returned, now, nUpd, committedFrom, obs,
                expire>>

\* The callers do the same to their records on both sides.
BothNewData(c, id) ==
    /\ LET m == NewDataIn(both.mem.heap, both.mem.held, both.mem.sessions, c, id)
           r == NewDataIn(both.red.heap, both.red.held, NoSessions, c, id)
       IN  both' = [both EXCEPT !.mem = m,
                                !.red = [kv |-> both.red.kv, heap |-> r.heap,
                                         held |-> r.held],
                                !.memOut = NoOutcome, !.redOut = NoOutcome]
    /\ BothUnchanged

BothSetBody(c, b) ==
    /\ both.mem.held[c] # NULL /\ both.red.held[c] # NULL
    /\ both.mem.heap[both.mem.held[c]].Body # b
         \/ both.red.heap[both.red.held[c]].Body # b
    /\ both' = [both EXCEPT
                  !.mem.heap = SetBodyIn(both.mem.heap, both.mem.held, c, b),
                  !.red.heap = SetBodyIn(both.red.heap, both.red.held, c, b),
                  !.memOut = NoOutcome, !.redOut = NoOutcome]
    /\ BothUnchanged

\* The same call on both stores, at the same time.
BothCreate(c) ==
    /\ both.mem.held[c] # NULL /\ both.red.held[c] # NULL
    /\ \E t \in {t \in Times : t >= both.now} :
          LET m == MemCreateOf(both.mem, c, t)
              r == RedisCreateOf(both.red, c, t)
          IN  both' = [mem |-> m.w, red |-> r.w, memOut |-> m.out,
                       redOut |-> r.out, now |-> t]
    /\ BothUnchanged

BothGet(c, id) ==
    /\ LET m == MemGetOf(both.mem, c, id)
           r == RedisGetOf(both.red, c, id)
       IN  both' = [both EXCEPT !.mem = m.w, !.red = r.w,
                                !.memOut = m.out, !.redOut = r.out]
    /\ BothUnchanged

BothUpdate(c) ==
    /\ both.mem.held[c] # NULL /\ both.red.held[c] # NULL
    /\ both.mem.heap[both.mem.held[c]].Version <= MaxVersion
    /\ both.red.heap[both.red.held[c]].Version <= MaxVersion
    /\ \E t \in {t \in Times : t >= both.now} :
          LET m == MemUpdateOf(both.mem, c, t)
              r == RedisUpdateOf(both.red, c, t)
          IN  both' = [mem |-> m.w, red |-> r.w, memOut |-> m.out,
                       redOut |-> r.out,
                       now |-> IF m.out.err = ErrNil \/ r.out.err = ErrNil
                               THEN t ELSE both.now]
    /\ BothUnchanged

BothDelete(c, id) ==
    /\ LET m == MemDeleteOf(both.mem, c, id)
           r == RedisDeleteOf(both.red, c, id)
       IN  both' = [both EXCEPT !.mem = m.w, !.red = r.w,
                                !.memOut = m.out, !.redOut = r.out]
    /\ BothUnchanged

NextBoth ==
    \E c \in Callers :
        \/ \E id \in OneID : BothNewData(c, id)
        \/ \E b \in Bodies : BothSetBody(c, b)
        \/ BothCreate(c)
        \/ \E id \in OneID : BothGet(c, id)
        \/ BothUpdate(c)
        \/ \E id \in OneID : BothDelete(c, id)

\* The Version each side holds for the ID (0: no record).
MemVersion(id) ==
    IF both.mem.sessions[id] # NULL THEN both.mem.heap[both.mem.sessions[id]].Version
    ELSE 0

RedVersion(id) == both.red.kv[id].version

----------------------------------------------------------------------------
(* The system *)

\* The callers and the empty store NewStore returns.
InitStore ==
    /\ sessions = [i \in IDs |-> NULL]
    /\ kv = [i \in IDs |-> RedisNil]
    /\ heap = [a \in Addr |-> FreeObj]
    /\ held = [c \in Callers |-> NULL]
    /\ pc = [c \in Callers |-> "idle"]
    /\ tx = [c \in Callers |-> NoTx]
    /\ returned = NoRet
    /\ now = ZeroTime
    /\ nUpd = [i \in IDs |-> 0]
    /\ committedFrom = [i \in IDs |-> {}]
    /\ obs = [c \in Callers |-> NoObs]
    /\ expire = [i \in IDs |-> 0]
    /\ arg = NoCall
    /\ res = NoCall
    /\ made = <<>>
    /\ maps = [a \in MapAddr |-> {}]
    /\ hist = [h \in Holders |-> NilSlice]
    /\ backing = [a \in ArrAddr |-> [i \in 1 .. MaxCap |-> FreeMsg]]
    /\ both = InitBoth
    /\ closed = FALSE

\* NewStore with no TTL option, its callers' contexts live.
Init ==
    /\ InitStore
    /\ \E st \in {StoreTypeMemory, StoreTypeRedis} :
          /\ storeType = NewStore(st, TRUE, 0).store.type
          /\ ttl = NewStore(st, TRUE, 0).store.ttl
    /\ ctx = [c \in Callers |-> ErrNil]

CallerStep ==
    \E c \in Callers :
        \/ \E id \in OneID : NewData(c, id)
        \/ \E b \in Bodies : SetBody(c, b)

MemStep ==
    \E c \in Callers :
        \/ MemCreate(c)
        \/ \E id \in OneID : MemGet(c, id)
        \/ MemUpdate(c)
        \/ \E id \in OneID : MemDelete(c, id)

RedisStep ==
    \E c \in Callers :
        \/ RedisCreate(c)
        \/ \E id \in OneID : RedisGetRead(c, id, FALSE)
        \/ RedisGetExpire(c, TRUE, TRUE)
        \/ RedisUpdateWatch(c)
        \/ RedisUpdateRead(c)
        \/ RedisUpdateExec(c)
        \/ \E id \in OneID : RedisDelete(c, id)

Next == CallerStep \/ MemStep \/ RedisStep

Spec == Init /\ [][Next]_vars

\* The local store called with contexts that may be done.
InitCtx ==
    /\ InitStore
    /\ storeType = NewStore(StoreTypeMemory, FALSE, 0).store.type
    /\ ttl = NewStore(StoreTypeMemory, FALSE, 0).store.ttl
    /\ ctx = [c \in Callers |-> ErrNil]

CtxStep == \E c \in Callers : \E e \in CtxErrs \cup {ErrNil} : SetCtx(c, e)

NextCtx == CallerStep \/ CtxStep \/ MemStep

SpecCtx == InitCtx /\ [][NextCtx]_vars

\* Either store with any TTL option and one caller, in its environment: a cache
\* whose keys expire and whose commands of Get may fail, and another client of
\* the cache.
EnvCallers == {CallerSeq[1]}

InitEnv ==
    /\ InitStore
    /\ \E st \in {StoreTypeMemory, StoreTypeRedis} : \E cfg \in TTLConfigs :
          /\ storeType = NewStore(st, TRUE, cfg).store.type
          /\ ttl = NewStore(st, TRUE, cfg).store.ttl
    /\ ctx = [c \in Callers |-> ErrNil]

EnvCallerStep ==
    \E c \in EnvCallers :
        \/ \E id \in OneID : NewData(c, id)
        \/ \E b \in Bodies : SetBody(c, b)

EnvMemStep ==
    \E c \in EnvCallers :
        \/ MemCreate(c)
        \/ \E id \in OneID : MemGet(c, id)
        \/ MemUpdate(c)
        \/ \E id \in OneID : MemDelete(c, id)

EnvRedisStep ==
    \E c \in EnvCallers :
        \/ RedisCreate(c)
        \/ \E id \in OneID : \E failed \in BOOLEAN : RedisGetRead(c, id, failed)
        \/ \E sent, ok \in BOOLEAN : RedisGetExpire(c, sent, ok)
        \/ RedisUpdateWatch(c)
        \/ RedisUpdateRead(c)
        \/ RedisUpdateExec(c)
        \/ \E id \in OneID : RedisDelete(c, id)

EnvStep ==
    \/ \E touch \in BOOLEAN : Elapse(touch)
    \/ \E id \in OneID : Corrupt(id)

NextEnv == EnvCallerStep \/ EnvMemStep \/ EnvRedisStep \/ EnvStep

SpecEnv == InitEnv /\ [][NextEnv]_vars

\* One caller working on two sessions of either store, the TTL option set to 2;
\* the caller may reuse a record for the other session.
InitIDs ==
    /\ InitStore
    /\ \E st \in {StoreTypeMemory, StoreTypeRedis} :
          /\ storeType = NewStore(st, TRUE, 2).store.type
          /\ ttl = NewStore(st, TRUE, 2).store.ttl
    /\ ctx = [c \in Callers |-> ErrNil]

IDsCallerStep ==
    \E c \in EnvCallers :
        \/ \E id \in IDs : NewData(c, id)
        \/ \E id \in IDs : SetID(c, id)

IDsMemStep ==
    \E c \in EnvCallers :
        \/ MemCreate(c)
        \/ \E id \in IDs : MemGet(c, id)
        \/ MemUpdate(c)
        \/ \E id \in IDs : MemDelete(c, id)

IDsRedisStep ==
    \E c \in EnvCallers :
        \/ RedisCreate(c)
        \/ \E id \in IDs : RedisGetRead(c, id, FALSE)
        \/ RedisGetExpire(c, TRUE, TRUE)
        \/ RedisUpdateWatch(c)
        \/ RedisUpdateRead(c)
        \/ RedisUpdateExec(c)
        \/ \E id \in IDs : RedisDelete(c, id)

NextIDs == IDsCallerStep \/ IDsMemStep \/ IDsRedisStep

SpecIDs == InitIDs /\ [][NextIDs]_vars

----------------------------------------------------------------------------
(* EstimateTokens *)

RECURSIVE Weight(_)
\* for _, r := range text: 1 for r <= 127, 4 otherwise.
Weight(text) ==
    IF text = <<>> THEN 0
    ELSE (IF Head(text) <= 127 THEN 1 ELSE 4) + Weight(Tail(text))

EstimateTokens_RoundDown(text) == Weight(text) \div 4

\* EstimateTokens(text), text given as its code points.
EstimateTokens(text) == (Weight(text) + 3) \div 4

Texts == UNION {[1 .. n -> Runes] : n \in 0 .. MaxText}

\* One call: the function reads nothing but its argument.
CallEstimateTokens(text) ==
    /\ arg = NoCall
    /\ arg' = [fn |-> "EstimateTokens", text |-> text]
    /\ res' = [fn |-> "EstimateTokens", n |-> EstimateTokens(text)]
    /\ UNCHANGED <<storeType, closed, ctx, ttl, made, maps, hist, backing, both, sessions, kv,
                   heap, held, pc, tx, returned, now, nUpd, committedFrom, obs,
                   expire>>

NextTokens == arg = NoCall /\ \E text \in Texts : CallEstimateTokens(text)

SpecTokens == InitCtx /\ [][NextTokens]_vars

----------------------------------------------------------------------------
(* TruncateHistory *)

\* A history whose i-th message has Content i and the i-th of the TokenCounts.
Messages(counts) ==
    [i \in 1 .. Len(counts) |-> [Content |-> i, TokenCount |-> counts[i]]]

Histories ==
    {Messages(counts) : counts \in UNION {[1 .. n -> TokenCounts] : n \in 0 .. MaxHistory}}

\* history[k:]
SliceFrom(history, k) == SubSeq(history, k + 1, Len(history))

RECURSIVE TotalTokens(_)
\* for _, msg := range history { totalTokens += msg.TokenCount }
TotalTokens(history) ==
    IF history = <<>> THEN 0
    ELSE Head(history).TokenCount + TotalTokens(Tail(history))

RECURSIVE DropOldest(_, _, _)
\* for totalTokens > tokenLimit && len(history) > 0 { ... history = history[1:] }
DropOldest(history, totalTokens, tokenLimit) ==
    IF totalTokens > tokenLimit /\ Len(history) > 0
    THEN DropOldest(SliceFrom(history, 1), totalTokens - history[1].TokenCount,
                    tokenLimit)
    ELSE history

TruncateHistory_DrainAtZero(history, tokenLimit, messageLimit) ==
    IF Len(history) = 0 THEN [ok |-> TRUE, history |-> history]
    ELSE IF Len(history) > messageLimit
              /\ Len(history) - messageLimit > Len(history)
    THEN [ok |-> FALSE, history |-> <<>>]
    ELSE LET h1 == IF Len(history) > messageLimit
                   THEN SliceFrom(history, Len(history) - messageLimit)
                   ELSE history
         IN  [ok |-> TRUE,
              history |-> IF tokenLimit = 0 THEN <<>>
                          ELSE DropOldest(h1, TotalTokens(h1), tokenLimit)]

TruncateHistory_BelowBudget(history, tokenLimit, messageLimit) ==
    IF Len(history) = 0 THEN [ok |-> TRUE, history |-> history]
    ELSE IF Len(history) > messageLimit
              /\ Len(history) - messageLimit > Len(history)
    THEN [ok |-> FALSE, history |-> <<>>]
    ELSE LET h1 == IF Len(history) > messageLimit
                   THEN SliceFrom(history, Len(history) - messageLimit)
                   ELSE history
         IN  [ok |-> TRUE,
              history |-> DropOldest(h1, TotalTokens(h1), tokenLimit - 1)]

TruncateHistory_OffByOne(history, tokenLimit, messageLimit) ==
    IF Len(history) = 0 THEN [ok |-> TRUE, history |-> history]
    ELSE IF messageLimit < 0
    THEN [ok |-> FALSE, history |-> <<>>]
    ELSE LET h1 == IF Len(history) >= messageLimit /\ messageLimit >= 1
                   THEN SliceFrom(history, Len(history) - messageLimit + 1)
                   ELSE IF messageLimit = 0 THEN <<>> ELSE history
         IN  [ok |-> TRUE,
              history |-> DropOldest(h1, TotalTokens(h1), tokenLimit)]

TruncateHistory_MessageLimitOnly(history, tokenLimit, messageLimit) ==
    [ok |-> TRUE,
     history |-> IF Len(history) > messageLimit /\ messageLimit >= 0
                 THEN SliceFrom(history, Len(history) - messageLimit)
                 ELSE history]

\* TruncateHistory(history, tokenLimit, messageLimit): ok is whether it returns
\* (a slice expression with a low bound beyond len(history) panics), history
\* what it returns.
TruncateHistory(history, tokenLimit, messageLimit) ==
    IF Len(history) = 0 THEN [ok |-> TRUE, history |-> history]
    ELSE IF Len(history) > messageLimit
              /\ Len(history) - messageLimit > Len(history)
    THEN [ok |-> FALSE, history |-> <<>>]
    ELSE LET h1 == IF Len(history) > messageLimit
                   THEN SliceFrom(history, Len(history) - messageLimit)
                   ELSE history
         IN  [ok |-> TRUE,
              history |-> DropOldest(h1, TotalTokens(h1), tokenLimit)]

\* One call: the function reads nothing but its arguments, so a call after
\* another does what the same call does first.
CallTruncateHistory(history, tokenLimit, messageLimit) ==
    /\ arg = NoCall
    /\ arg' = [fn |-> "TruncateHistory", history |-> history,
               tokenLimit |-> tokenLimit, messageLimit |-> messageLimit]
    /\ LET r == TruncateHistory(history, tokenLimit, messageLimit)
       IN  res' = [fn |-> "TruncateHistory", ok |-> r.ok, history |-> r.history]
    /\ UNCHANGED <<storeType, closed, ctx, ttl, made, maps, hist, backing, both, sessions, kv,
                   heap, held, pc, tx, returned, now, nUpd, committedFrom, obs,
                   expire>>

NextTruncate ==
    \E history \in Histories : \E tokenLimit \in TokenLimits :
        \E messageLimit \in MessageLimits :
            CallTruncateHistory(history, tokenLimit, messageLimit)

SpecTruncate == InitCtx /\ [][NextTruncate]_vars

\* s is what is left of h when its oldest messages are removed.
IsSuffix(s, h) ==
    /\ Len(s) <= Len(h)
    /\ s = SliceFrom(h, Len(h) - Len(s))

----------------------------------------------------------------------------
(* Histories as slices of backing arrays *)

\* The messages a slice reads.
ReadSlice(b, s) == [i \in 1 .. s.len |-> b[s.arr][s.off + i]]

\* The capacity append's growslice gives a slice of capacity cap that must hold
\* need elements (capacities below 256 double).
GrowCap(cap, need) == IF need > 2 * cap THEN need ELSE 2 * cap

\* An array no variable's slice points into.
FreshArr(h) == CHOOSE a \in ArrAddr :
    /\ \A x \in Holders : h[x].arr # a
    /\ \A a2 \in ArrAddr : (\A x \in Holders : h[x].arr # a2) => a <= a2

\* The arrays with every cell that no slice reads set to the zero Message:
\* unreferenced arrays are collected, and no operation here reads a cell
\* outside a slice's length before writing it.
Collect(b, h) ==
    [a \in ArrAddr |-> [i \in 1 .. MaxCap |->
        IF \E x \in Holders :
              h[x].arr = a /\ i > h[x].off /\ i <= h[x].off + h[x].len
        THEN b[a][i] ELSE FreeMsg]]

AppendSlice_AlwaysCopies(b, s, m, fresh) ==
    [backing |-> [b EXCEPT ![fresh] =
                    [i \in 1 .. MaxCap |->
                        IF i <= s.len THEN b[s.arr][s.off + i]
                        ELSE IF i = s.len + 1 THEN m ELSE FreeMsg]],
     slice |-> [arr |-> fresh, off |-> 0, len |-> s.len + 1,
                cap |-> GrowCap(s.cap, s.len + 1)]]

\* append(history, message): in place when the slice has spare capacity, into
\* a new array otherwise.
AppendSlice(b, s, m, fresh) ==
    IF s.len < s.cap
    THEN [backing |-> [b EXCEPT ![s.arr][s.off + s.len + 1] = m],
          slice |-> [s EXCEPT !.len = @ + 1]]
    ELSE [backing |-> [b EXCEPT ![fresh] =
                         [i \in 1 .. MaxCap |->
                             IF i <= s.len THEN b[s.arr][s.off + i]
                             ELSE IF i = s.len + 1 THEN m ELSE FreeMsg]],
          slice |-> [arr |-> fresh, off |-> 0, len |-> s.len + 1,
                     cap |-> GrowCap(s.cap, s.len + 1)]]

\* dst = AddMessageToHistory(src, role, content)
CallAddMessage(dst, src, content) ==
    /\ hist[src].len < MaxCap
    /\ hist[src].len = hist[src].cap => GrowCap(hist[src].cap, hist[src].len + 1) <= MaxCap
    /\ LET message == [Content |-> content, TokenCount |-> EstimateTokens(content)]
           r == AppendSlice(backing, hist[src], message,
                            FreshArr([hist EXCEPT ![dst] = NilSlice]))
           h == [hist EXCEPT ![dst] = r.slice]
       IN  /\ hist' = h
           /\ backing' = Collect(r.backing, h)
           /\ arg' = [fn |-> "AddMessageToHistory", dst |-> dst, src |-> src,
                      message |-> message]
           /\ res' = [fn |-> "AddMessageToHistory"]
    /\ UNCHANGED <<storeType, closed, ctx, ttl, made, maps, both, sessions, kv, heap, held, pc,
                   tx, returned, now, nUpd, committedFrom, obs, expire>>

\* dst = TruncateHistory(src, tokenLimit, messageLimit): the result is src
\* re-sliced from its k-th element.
CallTruncateSlice(dst, src, tokenLimit, messageLimit) ==
    /\ hist[src].len > 0
    /\ LET in == ReadSlice(backing, hist[src])
           r  == TruncateHistory(in, tokenLimit, messageLimit)
           k  == Len(in) - Len(r.history)
           h  == [hist EXCEPT ![dst] = [arr |-> hist[src].arr,
                                        off |-> hist[src].off + k,
                                        len |-> hist[src].len - k,
                                        cap |-> hist[src].cap - k]]
       IN  /\ r.ok
           /\ k > 0
           /\ hist' = h
           /\ backing' = Collect(backing, h)
           /\ arg' = NoCall
           /\ res' = NoCall
    /\ UNCHANGED <<storeType, closed, ctx, ttl, made, maps, both, sessions, kv, heap, held, pc,
                   tx, returned, now, nUpd, committedFrom, obs, expire>>

\* dst = src[:k], the caller keeping a prefix of a history (k = len: a copy of
\* the slice value).
Reslice(dst, src, k) ==
    /\ dst # src
    /\ k <= hist[src].len
    /\ hist[dst] # [hist[src] EXCEPT !.len = k]
    /\ LET h == [hist EXCEPT ![dst] = [hist[src] EXCEPT !.len = k]]
       IN  /\ hist' = h
           /\ backing' = Collect(backing, h)
    /\ arg' = NoCall
    /\ res' = NoCall
    /\ UNCHANGED <<storeType, closed, ctx, ttl, made, maps, both, sessions, kv, heap, held, pc,
                   tx, returned, now, nUpd, committedFrom, obs, expire>>

NextSlices ==
    \E dst, src \in Holders :
        \/ \E content \in Contents : CallAddMessage(dst, src, content)
        \/ \E tokenLimit \in SliceLimits : \E messageLimit \in SliceLimits :
              CallTruncateSlice(dst, src, tokenLimit, messageLimit)
        \/ \E k \in 0 .. MaxCap : Reslice(dst, src, k)

SpecSlices == InitCtx /\ [][NextSlices]_vars

----------------------------------------------------------------------------
(* NewStore called again and again *)

\* NewStore(st, opts...): hasClient and redisTTL are what the options set.  A
\* local store gets the map make() allocates, a cache-backed one the client.
CallNewStore(st, hasClient, redisTTL) ==
    /\ LET r == NewStore(st, hasClient, redisTTL)
           a == Len(made) + 1
       IN  /\ arg' = [fn |-> "NewStore", st |-> st, hasClient |-> hasClient,
                      redisTTL |-> redisTTL]
           /\ res' = [fn |-> "NewStore", store |-> r.store, err |-> r.err]
           /\ IF r.err = ErrNil
              THEN /\ Len(made) < MaxStores
                   /\ made' = Append(made,
                         [type |-> r.store.type, ttl |-> r.store.ttl,
                          sessions |-> IF r.store.type = StoreTypeMemory
                                       THEN a ELSE NULL])
                   /\ maps' = [maps EXCEPT ![a] = {}]
              ELSE UNCHANGED <<made, maps>>
    /\ UNCHANGED <<storeType, closed, ctx, ttl, hist, backing, both, sessions, kv, heap, held,
                   pc, tx, returned, now, nUpd, committedFrom, obs, expire>>

\* s.sessions[data.ID] = data on the i-th store made, a local one.
MapPut(i, id) ==
    /\ i \in 1 .. Len(made)
    /\ made[i].type = StoreTypeMemory
    /\ id \notin maps[made[i].sessions]
    /\ maps' = [maps EXCEPT ![made[i].sessions] = @ \cup {id}]
    /\ arg' = NoCall
    /\ res' = NoCall
    /\ UNCHANGED <<storeType, closed, ctx, ttl, made, hist, backing, both, sessions, kv, heap,
                   held, pc, tx, returned, now, nUpd, committedFrom, obs, expire>>

NewStoreStep ==
    \E st \in StoreTypes : \E hasClient \in BOOLEAN : \E redisTTL \in TTLConfigs :
        CallNewStore(st, hasClient, redisTTL)

MapStep == \E i \in MapAddr : \E id \in OneID : MapPut(i, id)

NextNewStore == NewStoreStep \/ MapStep

SpecNewStore == InitCtx /\ [][NextNewStore]_vars

SpecBoth == InitCtx /\ [][NextBoth]_vars

\* The local store with Close among its calls.
CloseStep ==
    \E c \in Callers :
        \/ MemClose(c)
        \/ MemCreateClosed(c)

NextClose == CallerStep \/ MemStep \/ CloseStep

SpecClose == InitCtx /\ [][NextClose]_vars

----------------------------------------------------------------------------
(* What the properties speak of *)

\* Whether the store holds a record for the ID, and that record, whichever
\* backend was constructed.
Has(id) ==
    IF storeType = StoreTypeMemory THEN sessions[id] # NULL ELSE kv[id] # RedisNil

Stored(id) ==
    IF storeType = StoreTypeMemory THEN heap[sessions[id]] ELSE unmarshalJSON(kv[id])

\* The step in which caller c's call op returns.
Returns(c, op) == returned'.op = op /\ returned'.c = c

\* The step in which caller c's Update looks the record up: the whole call in
\* the local store, the read under WATCH in the cache-backed store.
UpdateLookup(c) ==
    \/ storeType = StoreTypeMemory /\ Returns(c, "Update")
    \/ storeType = StoreTypeRedis /\ pc[c] = "upd_watched" /\ pc'[c] # "upd_watched"

\* The step in which caller c's Get reads the record.
GetLookup(c) ==
    \/ storeType = StoreTypeMemory /\ Returns(c, "Get")
    \/ storeType = StoreTypeRedis /\ pc[c] = "idle"
         /\ (pc'[c] = "get_expire" \/ Returns(c, "Get"))

\* The ID of the record caller c holds.
DataID(c) == heap[held[c]].ID

----------------------------------------------------------------------------
(* Claims *)

\* C1: local store: when two callers each Get a session stored at Version V
\* and then each Update with the record they obtained, exactly one Update
\* succeeds, the other returns ErrVersionConflict, and the stored Version ends
\* at V+1.
C1_RaceOneWinner ==
    \A c, d \in Callers :
        ( /\ storeType = StoreTypeMemory
          /\ c # d
          /\ obs[c].phase = "done" /\ obs[d].phase = "done"
          /\ obs[c].id = obs[d].id /\ obs[c].v = obs[d].v )
        => /\ {obs[c].err, obs[d].err} = {ErrNil, ErrVersionConflict}
           /\ Has(obs[c].id)
           /\ Stored(obs[c].id).Version = obs[c].v + 1

\* C2: cache-backed store: an Update commits only if the key was not written
\* between that Update's own read and its commit, and no two Updates that
\* succeed on a record were checked against the same stored Version.
C2_CommitOnlyIfUnmodified ==
    [][ \A c \in Callers :
          ( /\ storeType = StoreTypeRedis
            /\ pc[c] = "upd_exec"
            /\ Returns(c, "Update")
            /\ returned'.err = ErrNil )
          => /\ ~tx[c].modified
             /\ kv[tx[c].id] # RedisNil
             /\ kv[tx[c].id].version = tx[c].v0
             /\ tx[c].v0 \notin committedFrom[tx[c].id]
             /\ kv'[tx[c].id].version = tx[c].v0 + 1 ]_vars

\* Reached: an Update commits while another Update that carried the same
\* Version is still between its read and its EXEC.
C2_Witness ==
    /\ storeType = StoreTypeRedis
    /\ returned.op = "Update" /\ returned.err = ErrNil
    /\ \E d \in Callers : pc[d] = "upd_exec" /\ tx[d].rival /\ tx[d].dirty

\* C3: cache-backed store: when two Updates carrying the same Version V race,
\* the one that does not commit returns ErrVersionConflict and has no partial
\* effect: the stored record is the winner's at V+1, and the loser's data still
\* carries Version V and its previous UpdatedAt.
C3_LoserSeesVersionConflict ==
    [][ \A c \in Callers :
          ( /\ storeType = StoreTypeRedis
            /\ InUpdate(c)
            /\ tx[c].rival
            /\ Returns(c, "Update") )
          => /\ returned'.err = ErrVersionConflict
             /\ kv'[tx[c].id] # RedisNil
             /\ kv'[tx[c].id].version = tx[c].v0 + 1
             /\ heap'[held'[c]].Version = tx[c].v0
             /\ heap'[held'[c]].UpdatedAt = tx[c].u0 ]_vars

\* C4: the stored Version of an ID never decreases across a call that leaves
\* the record in the store.
C4_VersionNeverDecreases ==
    [][ \A id \in IDs :
          (Has(id) /\ Has(id)') => Stored(id)'.Version >= Stored(id).Version ]_vars

\* C5: the stored Version is 1 plus the number of successful Updates since the
\* record's Create, and every successful Update raises it by exactly 1.
C5_VersionCountsUpdates ==
    /\ [](\A id \in IDs : Has(id) => Stored(id).Version = 1 + nUpd[id])
    /\ [][ \A c \in Callers, id \in IDs :
             (Returns(c, "Update") /\ returned'.id = id /\ returned'.err = ErrNil)
             => /\ Has(id) /\ Has(id)'
                /\ Stored(id)'.Version = Stored(id).Version + 1 ]_vars

\* Reached: two successful Updates in a row after a Create.
C5_Witness ==
    /\ returned.op = "Update" /\ returned.err = ErrNil
    /\ nUpd[returned.id] = 2
    /\ Stored(returned.id).Version = 3

\* C6: Create stores the record with Version 1 and CreatedAt = UpdatedAt = the
\* time of the call, whatever the caller's record carried, and a Get that
\* follows the Create at once returns a record with Version 1 and
\* CreatedAt = UpdatedAt.
C6_CreateThenGet ==
    [][ \A c \in Callers, id \in IDs :
          /\ (Returns(c, "Create") /\ returned'.id = id)
             => /\ Has(id)'
                /\ Stored(id)'.Version = 1
                /\ Stored(id)'.CreatedAt = now'
                /\ Stored(id)'.UpdatedAt = now'
          /\ (returned.op = "Create" /\ returned.id = id /\ GetLookup(c)
                 /\ (returned'.op = "Get" => returned'.id = id)
                 /\ (pc'[c] = "get_expire" => tx'[c].id = id))
             => /\ held'[c] # NULL
                /\ heap'[held'[c]].ID = id
                /\ heap'[held'[c]].Version = 1
                /\ heap'[held'[c]].CreatedAt = heap'[held'[c]].UpdatedAt ]_vars

\* Reached: a Create, at a later time, of a record that came back from the
\* store at Version 3 with CreatedAt before UpdatedAt.
C6_Witness ==
    /\ returned.op = "Create"
    /\ returned.found = 3
    /\ now = 2
    /\ Stored(returned.id).Version = 1
    /\ Stored(returned.id).CreatedAt = 2
    /\ Stored(returned.id).UpdatedAt = 2

C8_CreateRejectsExisting ==
    [][ \A c \in Callers, id \in IDs :
          (Returns(c, "Create") /\ returned'.id = id /\ Has(id))
          => returned'.err # ErrNil ]_vars

\* C9: Update for an ID with no stored record returns ErrNotFound, stores
\* nothing for the ID and leaves the caller's data unchanged.
C9_UpdateAbsentNotFound ==
    [][ \A c \in Callers, id \in IDs :
          (UpdateLookup(c) /\ DataID(c) = id /\ ~Has(id))
          => /\ Returns(c, "Update")
             /\ returned'.err = ErrNotFound
             /\ ~Has(id)'
             /\ held'[c] = held[c]
             /\ heap'[held[c]] = heap[held[c]] ]_vars

\* Reached: ErrNotFound for a record that had been stored and updated, its ID
\* deleted since.
C9_Witness ==
    /\ returned.op = "Update" /\ returned.err = ErrNotFound
    /\ ~Has(returned.id)
    /\ heap[held[returned.c]].Version = 2

\* C10: an Update that finds the stored Version different from data.Version
\* returns ErrVersionConflict and changes neither the stored record nor the
\* caller's data.
C10_ConflictChangesNothing ==
    [][ \A c \in Callers, id \in IDs :
          ( /\ UpdateLookup(c)
            /\ DataID(c) = id
            /\ Has(id)
            /\ Stored(id).Version # heap[held[c]].Version )
          => /\ Returns(c, "Update")
             /\ returned'.err = ErrVersionConflict
             /\ Has(id)'
             /\ Stored(id)' = Stored(id)
             /\ held'[c] = held[c]
             /\ heap'[held[c]] = heap[held[c]] ]_vars

\* Reached: ErrVersionConflict for a stale copy one Version behind the store.
C10_Witness ==
    /\ returned.op = "Update" /\ returned.err = ErrVersionConflict
    /\ heap[held[returned.c]].Version = 1
    /\ Stored(returned.id).Version = 2

\* C11: local store: a caller's edit of a record it passed to Create or Update,
\* or obtained from Get, made without calling Update, changes nothing of what the
\* store holds for any ID: neither what a later Get returns nor the Version a
\* later Update is checked against.
C11_NoLiveReference ==
    [][ \A id \in IDs :
          ( /\ storeType = StoreTypeMemory
            /\ returned'.op = "none"
            /\ Has(id) )
          => /\ Has(id)'
             /\ Stored(id)' = Stored(id) ]_vars

\* C12: the stored Version and body of a record change only together, in the
\* step in which a successful Update commits, and a Get returns the Version and
\* body the store holds at its read: no Get sees a new Version with the old
\* body or the old Version with a new body.
C12_VersionAndBodyTogether ==
    [][ \A id \in IDs :
          /\ ( /\ Has(id) /\ Has(id)'
               /\ returned'.op # "Create"
               /\ \/ Stored(id)'.Body # Stored(id).Body
                  \/ Stored(id)'.Version # Stored(id).Version )
             => /\ returned'.op = "Update" /\ returned'.err = ErrNil
                /\ Stored(id)'.Version = Stored(id).Version + 1
                /\ Stored(id)' = heap'[held'[returned'.c]]
          /\ \A c \in Callers :
                ( /\ GetLookup(c) /\ Has(id)
                  /\ (returned'.op = "Get" => returned'.id = id)
                  /\ (pc'[c] = "get_expire" => tx'[c].id = id) )
                => /\ held'[c] # NULL
                   /\ heap'[held'[c]].Version = Stored(id).Version
                   /\ heap'[held'[c]].Body = Stored(id).Body ]_vars

\* C13: a store call made with a context that is already cancelled or expired
\* returns that context's error and leaves the store as it was.
C13_CancelledContextAborts ==
    [][ \A c \in Callers :
          ( /\ ctx[c] \in CtxErrs
            /\ returned'.op # "none"
            /\ returned'.c = c )
          => /\ returned'.err = ctx[c]
             /\ \A id \in IDs :
                   /\ Has(id)' = Has(id)
                   /\ Has(id) => Stored(id)' = Stored(id) ]_vars

\* C14: Get returns a nil record with a nil error only when no record is stored
\* for the ID at its read, and always then unless the read itself fails; a
\* failed read and a stored value that cannot be decoded both give a non-nil
\* error and a nil record.
C14_GetNilExactlyWhenAbsent ==
    [][ \A c \in Callers : \A id \in IDs :
          ( /\ Returns(c, "Get") /\ returned'.id = id )
          => /\ ( held'[c] = NULL /\ returned'.err = ErrNil )
                  => ( GetLookup(c) /\ ~Has(id) )
             /\ ( GetLookup(c) /\ ~Has(id) /\ returned'.fault # "read" )
                  => ( held'[c] = NULL /\ returned'.err = ErrNil )
             /\ returned'.fault = "read"
                  => ( held'[c] = NULL /\ returned'.err # ErrNil )
             /\ ( GetLookup(c) /\ storeType = StoreTypeRedis /\ kv[id] = BadValue )
                  => ( held'[c] = NULL /\ returned'.err # ErrNil ) ]_vars

\* A Get has met a stored value that does not decode.
C14_Witness ==
    /\ returned.op = "Get" /\ returned.err = ErrDecode
    /\ kv[returned.id] = BadValue
    /\ held[returned.c] = NULL

\* C15: Delete returns no error and leaves no record for the ID, whether or not
\* one was stored and whatever its Version; an ID without a record gets one only
\* by a Create; a Get that finds no record returns nil and an Update that finds
\* none returns ErrNotFound.
C15_DeleteUnconditionalFinal ==
    [][ \A id \in IDs :
          /\ ( returned'.op = "Delete" /\ returned'.id = id )
                => ( returned'.err = ErrNil /\ ~Has(id)' )
          /\ ( ~Has(id) /\ Has(id)' )
                => ( returned'.op = "Create" /\ returned'.id = id )
          /\ \A c \in Callers :
                /\ ( /\ GetLookup(c) /\ ~Has(id)
                     /\ (returned'.op = "Get" => returned'.id = id)
                     /\ (pc'[c] = "get_expire" => tx'[c].id = id) )
                   => ( Returns(c, "Get") /\ held'[c] = NULL /\ returned'.err = ErrNil )
                /\ ( /\ UpdateLookup(c) /\ ~Has(id)
                     /\ IF storeType = StoreTypeMemory THEN returned'.id = id
                                                       ELSE tx[c].id = id )
                   => ( Returns(c, "Update") /\ returned'.err = ErrNotFound ) ]_vars

\* A Delete has removed a record that had been updated to Version 2.
C15_Witness ==
    /\ returned.op = "Delete" /\ returned.err = ErrNil
    /\ returned.found = 2
    /\ ~Has(returned.id)

\* C16: a successful Update leaves the stored CreatedAt of its ID as it was,
\* whatever CreatedAt the caller's data carries; every successful Create and
\* Update stores an UpdatedAt read from the clock during the call, and Version
\* 1 or the stored Version plus one.
C16_CreatedAtSetOnce ==
    [][ \A id \in IDs :
          ( /\ returned'.op \in {"Create", "Update"} /\ returned'.err = ErrNil
            /\ returned'.id = id )
          => /\ Has(id)'
             /\ Stored(id)'.UpdatedAt \in Times
             /\ Stored(id)'.UpdatedAt <= now'
             /\ returned'.op = "Create" => Stored(id)'.Version = 1
             /\ returned'.op = "Update"
                  => /\ Has(id)
                     /\ Stored(id)'.Version = Stored(id).Version + 1
                     /\ Stored(id)'.CreatedAt = Stored(id).CreatedAt ]_vars

\* The TTLs NewStore can give the cache-backed store: the configured one, or
\* 24 hours when that is not positive.
EffectiveTTLs == {DefaultTTL} \cup {cfg \in TTLConfigs : cfg > 0}

\* C17 (as stated): cache-backed store: right after every successful Create,
\* Update, and Get that returns a record, the key's remaining expiration is the
\* store's effective TTL; a Delete leaves no key and touches no other key's
\* expiration.
C17_TTLAfterEverySuccess ==
    [][ \A id \in IDs :
          ( /\ storeType = StoreTypeRedis
            /\ returned'.op # "none" /\ returned'.id = id /\ returned'.err = ErrNil )
          => /\ ttl \in EffectiveTTLs
             /\ returned'.op \in {"Create", "Update"} => expire'[id] = ttl
             /\ ( returned'.op = "Get" /\ held'[returned'.c] # NULL )
                  => expire'[id] = ttl
             /\ returned'.op = "Delete"
                  => /\ ~Has(id)'
                     /\ \A other \in IDs \ {id} : expire'[other] = expire[other] ]_vars

\* C17 (amended): the same, but for Get only when its Expire command succeeded
\* and the key still existed when Expire ran.
C17_TTLAfterRefresh ==
    [][ \A id \in IDs :
          ( /\ storeType = StoreTypeRedis
            /\ returned'.op # "none" /\ returned'.id = id /\ returned'.err = ErrNil )
          => /\ ttl \in EffectiveTTLs
             /\ returned'.op \in {"Create", "Update"} => expire'[id] = ttl
             /\ ( /\ returned'.op = "Get" /\ held'[returned'.c] # NULL
                  /\ returned'.fault # "expire" /\ Has(id) )
                  => expire'[id] = ttl
             /\ returned'.op = "Delete"
                  => /\ ~Has(id)'
                     /\ \A other \in IDs \ {id} : expire'[other] = expire[other] ]_vars

\* A Get has returned a record from a store configured with a non-positive TTL,
\* its Expire succeeded, and the key has the default expiration.
C17_Witness ==
    /\ storeType = StoreTypeRedis
    /\ ttl = DefaultTTL
    /\ returned.op = "Get" /\ returned.err = ErrNil /\ returned.fault = "none"
    /\ held[returned.c] # NULL
    /\ expire[returned.id] = DefaultTTL

\* C18: cache-backed Get: when the read and the decode succeeded and the Expire
\* command fails, Get returns the record it decoded, with a nil error.
C18_ExpireFailureTolerated ==
    [][ \A c \in Callers :
          ( /\ storeType = StoreTypeRedis
            /\ Returns(c, "Get") /\ returned'.fault = "expire" )
          => /\ returned'.err = ErrNil
             /\ held[c] # NULL /\ held'[c] # NULL
             /\ heap'[held'[c]] = heap[held[c]]
             /\ heap'[held'[c]].ID = returned'.id ]_vars

\* A Get whose Expire failed has returned a record stored at Version 2.
C18_Witness ==
    /\ returned.op = "Get" /\ returned.fault = "expire"
    /\ returned.err = ErrNil
    /\ held[returned.c] # NULL
    /\ heap[held[returned.c]].Version = 2

\* C19: NewStore returns no store and ErrInvalidStoreType for every selector
\* other than "memory" and "redis", no store and ErrInvalidConfig for "redis"
\* without a client, and for "memory" always a store with an empty mapping of
\* its own, which no store made before has; an entry put into one store's
\* mapping appears in no other store's.
C19_NewStoreConstruction ==
    [][ /\ res'.fn = "NewStore"
          => /\ arg'.st \notin {StoreTypeMemory, StoreTypeRedis}
                  => ( /\ res'.err = ErrInvalidStoreType /\ res'.store = NoStore
                       /\ made' = made )
             /\ ( arg'.st = StoreTypeRedis /\ ~arg'.hasClient )
                  => ( /\ res'.err = ErrInvalidConfig /\ res'.store = NoStore
                       /\ made' = made )
             /\ arg'.st = StoreTypeMemory
                  => /\ res'.err = ErrNil
                     /\ res'.store.type = StoreTypeMemory
                     /\ Len(made') = Len(made) + 1
                     /\ made'[Len(made')].type = StoreTypeMemory
                     /\ maps'[made'[Len(made')].sessions] = {}
                     /\ \A i \in 1 .. Len(made) :
                           /\ made'[i] = made[i]
                           /\ made[i].sessions # made'[Len(made')].sessions
                           /\ made[i].sessions # NULL
                                => maps'[made[i].sessions] = maps[made[i].sessions]
        /\ \A i, j \in 1 .. Len(made) :
              ( /\ i # j /\ made' = made
                /\ made[i].type = StoreTypeMemory /\ made[j].type = StoreTypeMemory
                /\ maps'[made[i].sessions] # maps[made[i].sessions] )
              => maps'[made[j].sessions] = maps[made[j].sessions] ]_vars

\* A second local store has been made after an entry was put into the first.
C19_Witness ==
    /\ res.fn = "NewStore" /\ res.err = ErrNil
    /\ Len(made) = 2
    /\ made[1].type = StoreTypeMemory /\ made[2].type = StoreTypeMemory
    /\ maps[made[1].sessions] # {}
    /\ maps[made[2].sessions] = {}

\* C20: called with messageLimit >= 0 and tokenLimit >= 0, TruncateHistory
\* returns what is left of its input when some of the oldest messages are
\* removed, at most messageLimit messages, their TokenCounts summing to at most
\* tokenLimit.
C20_TruncateBounds ==
    ( /\ res.fn = "TruncateHistory"
      /\ arg.messageLimit >= 0 /\ arg.tokenLimit >= 0 )
    => /\ res.ok
       /\ IsSuffix(res.history, arg.history)
       /\ Len(res.history) <= arg.messageLimit
       /\ TotalTokens(res.history) <= arg.tokenLimit

\* A call where the message limit removed one message and the token limit one
\* more.
C20_Witness ==
    /\ res.fn = "TruncateHistory"
    /\ Len(arg.history) = 3 /\ arg.messageLimit = 2
    /\ arg.tokenLimit >= 1
    /\ Len(res.history) = 1
    /\ TotalTokens(SliceFrom(arg.history, 1)) > arg.tokenLimit

\* C21: called with messageLimit <= 0 or tokenLimit <= 0, negative values
\* included, TruncateHistory returns (it does not panic), and what it returns is
\* what is left of its input when some of the oldest messages are removed.
C21_ToleratesNonPositiveLimits ==
    ( /\ res.fn = "TruncateHistory"
      /\ (arg.messageLimit <= 0 \/ arg.tokenLimit <= 0) )
    => /\ res.ok
       /\ IsSuffix(res.history, arg.history)

\* C22 (as stated): with tokenLimit = 0, and with messageLimit = 0,
\* TruncateHistory returns the empty sequence for every history, whatever the
\* TokenCounts of its messages.
C22_ZeroBudgetDrains ==
    ( /\ res.fn = "TruncateHistory"
      /\ (arg.tokenLimit = 0 \/ arg.messageLimit = 0) )
    => /\ res.ok
       /\ res.history = <<>>

\* C22 (amended): with messageLimit = 0 TruncateHistory returns the empty
\* sequence for every history; with tokenLimit = 0 and messageLimit >= 0 it
\* returns only messages of TokenCount 0, and the empty sequence exactly when
\* the history is empty, messageLimit is 0 or the newest message has a positive
\* TokenCount (no TokenCount being negative).
C22_ZeroBudgetKeepsFreeMessages ==
    ( /\ res.fn = "TruncateHistory"
      /\ arg.messageLimit >= 0
      /\ (arg.tokenLimit = 0 \/ arg.messageLimit = 0)
      /\ \A i \in 1 .. Len(arg.history) : arg.history[i].TokenCount >= 0 )
    => /\ res.ok
       /\ arg.messageLimit = 0 => res.history = <<>>
       /\ arg.tokenLimit = 0
            => /\ \A i \in 1 .. Len(res.history) : res.history[i].TokenCount = 0
               /\ res.history = <<>>
                    <=> \/ arg.history = <<>>
                        \/ arg.messageLimit = 0
                        \/ arg.history[Len(arg.history)].TokenCount > 0

\* A call with tokenLimit 0 has dropped a message that has tokens and kept a
\* newer one that has none.
C22_Witness ==
    /\ res.fn = "TruncateHistory" /\ res.ok
    /\ arg.tokenLimit = 0 /\ arg.messageLimit >= 2
    /\ Len(arg.history) = 2 /\ arg.history[1].TokenCount > 0
    /\ Len(res.history) = 1 /\ res.history[1].TokenCount = 0

\* C23: with limits >= 0, TruncateHistory returns exactly the last
\* min(len, messageLimit) messages when their TokenCounts sum to at most
\* tokenLimit, and otherwise the longest of their suffixes whose TokenCounts
\* sum to at most tokenLimit.
C23_KeepsLongestAllowedSuffix ==
    ( /\ res.fn = "TruncateHistory"
      /\ arg.messageLimit >= 0 /\ arg.tokenLimit >= 0 )
    => LET len  == Len(arg.history)
           n    == IF len < arg.messageLimit THEN len ELSE arg.messageLimit
           last == SliceFrom(arg.history, len - n)
       IN  /\ res.ok
           /\ IF TotalTokens(last) <= arg.tokenLimit
              THEN res.history = last
              ELSE /\ IsSuffix(res.history, last)
                   /\ TotalTokens(res.history) <= arg.tokenLimit
                   /\ \A k \in (Len(res.history) + 1) .. n :
                         TotalTokens(SliceFrom(last, n - k)) > arg.tokenLimit

\* Of three messages the limit of two kept the last two, and their tokens being
\* over the budget, the older of the two was dropped.
C23_Witness ==
    /\ res.fn = "TruncateHistory" /\ res.ok
    /\ Len(arg.history) = 3 /\ arg.messageLimit = 2 /\ arg.tokenLimit >= 0
    /\ arg.history[2].TokenCount + arg.history[3].TokenCount > arg.tokenLimit
    /\ res.history = <<arg.history[3]>>

\* C24: TruncateHistory returns a history that is within both limits as it is,
\* and whenever it returns, truncating its result again with the same limits
\* returns that result.
C24_IdentityWithinBudget ==
    res.fn = "TruncateHistory"
    => /\ ( /\ Len(arg.history) <= arg.messageLimit
            /\ TotalTokens(arg.history) <= arg.tokenLimit )
          => ( res.ok /\ res.history = arg.history )
       /\ res.ok
          => TruncateHistory(res.history, arg.tokenLimit, arg.messageLimit)
               = [ok |-> TRUE, history |-> res.history]

\* A history of two messages that exactly meets both limits came back whole.
C24_Witness ==
    /\ res.fn = "TruncateHistory" /\ res.ok
    /\ Len(arg.history) = 2 /\ arg.messageLimit = 2
    /\ TotalTokens(arg.history) = arg.tokenLimit /\ arg.tokenLimit > 0
    /\ res.history = arg.history

\* C25: AddMessageToHistory returns its input followed by the new message, and
\* every history other than the variable the result is assigned to, the input
\* included, reads after the call as it did before.
C25_CopyOnAppend ==
    [][ res'.fn = "AddMessageToHistory"
          => /\ ReadSlice(backing', hist'[arg'.dst])
                  = Append(ReadSlice(backing, hist[arg'.src]), arg'.message)
             /\ \A h \in Holders \ {arg'.dst} :
                   ReadSlice(backing', hist'[h]) = ReadSlice(backing, hist[h]) ]_vars

\* C26: EstimateTokens(text) is (a + 4n + 3) / 4 in integer division, the least
\* integer not below (a + 4n) / 4, a being the number of code points <= 127 in
\* text and n the number of the others; it is never negative, 0 for the empty
\* string, 1 for "test" and 3 for the three CJK characters.
C26_EstimateTokensFormula ==
    res.fn = "EstimateTokens"
    => LET text == arg.text
           a == Cardinality({i \in 1 .. Len(text) : text[i] <= 127})
           n == Cardinality({i \in 1 .. Len(text) : text[i] > 127})
       IN  /\ res.n = (a + 4 * n + 3) \div 4
           /\ 4 * res.n >= a + 4 * n
           /\ 4 * (res.n - 1) < a + 4 * n
           /\ res.n >= 0
           /\ text = <<>> => res.n = 0
           /\ text = <<116, 101, 115, 116>> => res.n = 1
           /\ text = <<26085, 26412, 35486>> => res.n = 3

\* EstimateTokens has been called with a text of single-byte and other
\* characters whose weight is no multiple of 4.
C26_Witness ==
    /\ res.fn = "EstimateTokens"
    /\ arg.text = <<116, 26085, 127, 128>>
    /\ res.n = 3

\* C27: given the same sequence of Create, Get, Update and Delete calls by
\* callers that reuse the records they passed to or received from the store,
\* the local and the cache-backed store return the same outcome of every call
\* and hold the same Version for every ID after it.
C27_BackendsAgree ==
    /\ both.memOut = both.redOut
    /\ \A id \in IDs : MemVersion(id) = RedVersion(id)

\* C28: local store: every Get that returns after Close returns a nil record
\* and a nil error, whatever ID it asks for, and the closed store holds no
\* record.
C28_GetAfterCloseNil ==
    [][ ( closed /\ returned'.op = "Get" )
          => /\ held'[returned'.c] = NULL
             /\ returned'.err = ErrNil
             /\ \A id \in IDs : ~Has(id) /\ ~Has(id)' ]_vars

\* A Get after Close has returned nil for an ID whose record, created and
\* updated before, another caller still holds.
C28_Witness ==
    /\ closed
    /\ returned.op = "Get" /\ held[returned.c] = NULL
    /\ \E d \in Callers :
          /\ held[d] # NULL
          /\ heap[held[d]].ID = returned.id
          /\ heap[held[d]].Version = 2

\* C29: an Update checks the Version once and attempts its commit once: after
\* the check the call either returns its error or goes on to the commit, and
\* after the commit attempt it returns; an attempt the cache aborted because
\* the watched key changed writes nothing and returns an error.  On the local
\* store the check, the write and the return are one step.
C29_UpdateNeverRetries ==
    [][ \A c \in Callers :
          /\ ( pc[c] = "upd_watched" /\ pc'[c] # "upd_watched" )
                => \/ pc'[c] = "upd_exec" /\ returned'.op = "none"
                   \/ /\ pc'[c] = "idle" /\ Returns(c, "Update")
                      /\ returned'.err # ErrNil
                      /\ kv' = kv
          /\ ( pc[c] = "upd_exec" /\ pc'[c] # "upd_exec" )
                => /\ pc'[c] = "idle" /\ Returns(c, "Update")
                   /\ tx[c].dirty => ( kv' = kv /\ returned'.err # ErrNil )
          /\ ( pc[c] = "upd_exec" /\ pc'[c] = "upd_exec" )
                => ~Returns(c, "Update")
          /\ ( storeType = StoreTypeMemory /\ Returns(c, "Update") )
                => ( pc[c] = "idle" /\ pc'[c] = "idle" ) ]_vars

\* An Update whose transaction the cache aborted has returned TxFailedErr, the
\* key by then holding what another caller's Update committed.
C29_Witness ==
    /\ returned.op = "Update" /\ returned.err = TxFailedErr
    /\ pc[returned.c] = "idle"
    /\ Has(returned.id) /\ Stored(returned.id).Version = 2

\* C30: on the cache-backed store, whatever the interleaving of Create, Update
\* and Delete on an ID, a stored record has a Version of at least 1 that is 1
\* plus the number of Updates that returned success since the Create that last
\* wrote the key; an Update that succeeds commits over the value it read, so
\* never over a Create that came after its read, and an Update whose key was
\* written after its read leaves the key as that write left it.
C30_CacheVersionCountsUpdates ==
    /\ []( storeType = StoreTypeRedis
            => \A id \in IDs :
                  Has(id) => /\ Stored(id).Version >= 1
                             /\ Stored(id).Version = 1 + nUpd[id] )
    /\ [][ storeType = StoreTypeRedis
            => \A c \in Callers :
                  /\ ( Returns(c, "Update") /\ returned'.err = ErrNil )
                        => /\ ~tx[c].modified
                           /\ nUpd'[returned'.id] = nUpd[returned'.id] + 1
                  /\ ( pc[c] = "upd_exec" /\ tx[c].modified /\ pc'[c] = "idle" )
                        => /\ kv' = kv /\ nUpd' = nUpd
                           /\ returned'.err = TxFailedErr ]_vars

\* An Update read Version 2 and stamped its data with 3, a Create then wrote
\* the key anew, and the Update returned TxFailedErr: the record stored is the
\* Create's, at Version 1 with no Update counted.
C30_Witness ==
    /\ storeType = StoreTypeRedis
    /\ returned.op = "Update" /\ returned.err = TxFailedErr
    /\ heap[held[returned.c]].Version = 3
    /\ Has(returned.id)
    /\ Stored(returned.id).Version = 1 /\ nUpd[returned.id] = 0

\* C31: an Update in flight does not bring a deleted session back.  On the
\* cache-backed store an Update that has read the record and then finds the
\* key deleted ends without writing and with an error; on either store an
\* Update that succeeds wrote over a record that was stored, an Update that
\* fails neither stores nor removes a record, and a Get that starts when the
\* ID has no stored record returns nil.
C31_DeleteNotUndoneByUpdate ==
    [][ \A c \in Callers :
          \A id \in IDs :
                /\ ( pc[c] = "upd_exec" /\ tx[c].id = id /\ ~Has(id)
                                        /\ pc'[c] # "upd_exec" )
                      => /\ Returns(c, "Update") /\ returned'.err # ErrNil
                         /\ ~Has(id)'
                /\ ( Returns(c, "Update") /\ returned'.id = id
                                          /\ returned'.err = ErrNil )
                      => ( Has(id) /\ Has(id)' )
                /\ ( Returns(c, "Update") /\ returned'.id = id
                                          /\ returned'.err # ErrNil )
                      => ( Has(id)' <=> Has(id) )
                /\ ( Returns(c, "Get") /\ returned'.id = id
                                       /\ pc[c] = "idle" /\ ~Has(id) )
                      => held'[c] = NULL ]_vars

\* On the cache-backed store an Update read the record at Version 1 and
\* stamped its data with 2, a Delete then removed the key, and the Update
\* returned TxFailedErr with the key still absent.
C31_Witness ==
    /\ storeType = StoreTypeRedis
    /\ returned.op = "Update" /\ returned.err = TxFailedErr
    /\ heap[held[returned.c]].Version = 2
    /\ ~Has(returned.id)
    /\ \A c \in Callers : pc[c] = "idle"

\* What the store holds for an ID: the record, or the zero record when there
\* is none.
StoredOrNone(id) == IF Has(id) THEN Stored(id) ELSE FreeObj

\* C32: a Create, Update or Delete on one ID, succeeding or failing, leaves
\* the stored record (its Version included) and the TTL of every other ID as
\* they were, and a Get leaves every stored record as it was.
C32_OperationsArePerID ==
    [][ \A c \in Callers : \A id \in IDs :
          /\ ( returned'.c = c /\ returned'.id = id
                 /\ returned'.op \in {"Create", "Update", "Delete"} )
                => \A other \in IDs \ {id} :
                      /\ StoredOrNone(other)' = StoredOrNone(other)
                      /\ expire'[other] = expire[other]
          /\ ( Returns(c, "Get") /\ returned'.id = id )
                => \A any \in IDs : StoredOrNone(any)' = StoredOrNone(any) ]_vars

====
